---- MODULE Spec2Model ----
(***************************************************************************)
(* piston-perfect: the request pipeline of BaseHandler / ModelHandler      *)
(* (handlers.py), the error classification of Resource (resource.py) and   *)
(* the patched Emitter.construct (patches.py), as one state machine that   *)
(* handles one request from reception to the constructed response.         *)
(*                                                                         *)
(* Python values are records tagged by t:                                  *)
(*   [t |-> "absent"]   the request has no `data` attribute                *)
(*   [t |-> "none"]     None                                               *)
(*   [t |-> "dict", d]  a mapping field name -> value                      *)
(*   [t |-> "new", d]   an unsaved model instance built from d             *)
(*   [t |-> "inst", r]  a model instance holding the record r              *)
(*   [t |-> "qs", items, limited]  a QuerySet: its rows in iteration order *)
(*                      and whether limits (LIMIT/OFFSET) are set on it    *)
(*   [t |-> "list", items]  a list of model instances                      *)
(* Text is a sequence of one-character strings.  A QuerySet without        *)
(* order_by iterates in primary-key order.                                 *)
(*                                                                         *)
(* The handlers of the custom lookup suffixes (custom_filters.py) are      *)
(* called on a QuerySet of contacts that is kept lazy,                     *)
(*   [t |-> "lazy", clauses]  the filter, count and exclude clauses so far *)
(* and filterRun holds that QuerySet and the calls made on it.             *)
(*                                                                         *)
(* handlerClass is the handler class most recently defined, as             *)
(* BaseHandlerMeta.__new__ constructed it.                                 *)
(***************************************************************************)
EXTENDS Integers, Sequences, FiniteSets, TLC

VARIABLES cfg, store, pc, req, body, env, exc, resp, selection, constructed, stages,
          filterRun, handlerClass

vars == <<cfg, store, pc, req, body, env, exc, resp, selection, constructed, stages,
          filterRun, handlerClass>>

\* Number of records in the store; ids are 1..MaxId, and MaxId + 1
\* addresses an item that does not exist.
MaxId == 3

----------------------------------------------------------------------------
\* Python values

Absent == [t |-> "absent"]
None == [t |-> "none"]
Dict(d) == [t |-> "dict", d |-> d]
NewInstance(d) == [t |-> "new", d |-> d]
Instance(r) == [t |-> "inst", r |-> r]
QuerySet(items, limited) == [t |-> "qs", items |-> items, limited |-> limited]
List(items) == [t |-> "list", items |-> items]

EmptyMap == [f \in {} |-> 0]

Range(s) == {s[i] : i \in 1..Len(s)}

\* Python truth value of a request body / operation result.
Truthy(v) ==
    CASE v.t = "none" -> FALSE
      [] v.t = "dict" -> DOMAIN v.d # {}
      [] v.t \in {"qs", "list"} -> Len(v.items) > 0
      [] OTHER -> TRUE

----------------------------------------------------------------------------
\* The model (django.db.models.Model subclass) behind a ModelHandler

ModelFieldNames == {"id", "grp", "name", "secret"}
PrimaryKey == "id"
UniqueFields == {"id"}

Rec(i) ==
    [id |-> i,
     grp |-> i % 2,
     name |-> IF i % 2 = 1 THEN <<"a", "b">> ELSE <<"B">>,
     secret |-> <<"s">>]

InitialStore == {Rec(i) : i \in 1..MaxId}

RECURSIVE SortById(_)
SortById(S) ==
    IF S = {} THEN <<>>
    ELSE LET r == CHOOSE x \in S : \A y \in S : x.id <= y.id
         IN <<r>> \o SortById(S \ {r})

\* Text helpers: str.lower, substring test, ' '.join / str.split
Lower(c) == CASE c = "A" -> "a" [] c = "B" -> "b" [] c = "S" -> "s" [] OTHER -> c

IContains(text, term) ==
    \E off \in 0..(Len(text) - Len(term)) :
        \A k \in 1..Len(term) : Lower(text[off + k]) = Lower(term[k])

RECURSIVE JoinSpace(_)
JoinSpace(values) ==
    IF values = <<>> THEN <<>>
    ELSE IF Len(values) = 1 THEN values[1]
    ELSE values[1] \o <<" ">> \o JoinSpace(Tail(values))

RECURSIVE SplitWs(_, _)
SplitWs(text, cur) ==
    IF text = <<>> THEN (IF cur = <<>> THEN <<>> ELSE <<cur>>)
    ELSE IF Head(text) = " "
         THEN (IF cur = <<>> THEN <<>> ELSE <<cur>>) \o SplitWs(Tail(text), <<>>)
         ELSE SplitWs(Tail(text), Append(cur, Head(text)))

\* unicode(list of unicode strings), as django's smart_unicode renders it:
\* [u'a', u'b']
RECURSIVE ReprItems(_)
ReprItems(values) ==
    IF values = <<>> THEN <<>>
    ELSE <<"u", "'">> \o values[1] \o <<"'">>
         \o (IF Len(values) > 1 THEN <<",", " ">> ELSE <<>>)
         \o ReprItems(Tail(values))

SmartUnicode(values) == <<"[">> \o ReprItems(values) \o <<"]">>

----------------------------------------------------------------------------
\* Handler class attributes.  cfg holds the ones a concrete handler varies:
\* kind ("base" for a BaseHandler subclass without model, "model" for a
\* ModelHandler subclass), fields and exclude_in.

model_fields == {"model_key", "model_type", "model_description"}

\* exclude = re.compile('^_'), : the names the default pattern matches
UnderscoreNames == {"_x"}

exclude_nested == {}

\* filters: name -> definition (a lookup string, or a list of fields)
\* Lookup strings, character by character
NameLookup == <<"n", "a", "m", "e">>
MembershipsList ==
    <<"m", "e", "m", "b", "e", "r", "s", "h", "i", "p", "s", "_", "_", "l", "i", "s", "t">>
Emails == <<"e", "m", "a", "i", "l", "s">>
Recipients == <<"r", "e", "c", "i", "p", "i", "e", "n", "t", "s">>
LookupSep == <<"_", "_">>

InAllSuffix == LookupSep \o <<"i", "n", "_", "a", "l", "l">>
ISearchSuffix == LookupSep \o <<"i", "s", "e", "a", "r", "c", "h">>
InListSuffix == LookupSep \o <<"i", "n", "_", "l", "i", "s", "t">>

InAllDefinition == MembershipsList \o InAllSuffix
ISearchDefinition == Recipients \o ISearchSuffix
InListDefinition == Emails \o InListSuffix

Filters ==
    [q |-> [t |-> "list", fields |-> <<"name", "secret">>],
     name |-> [t |-> "str", lookup |-> NameLookup],
     list |-> [t |-> "str", lookup |-> InAllDefinition]]

\* filters = False, the default
NoFilters == [t |-> "none"]

\* A lookup with a suffix that neither the ORM nor custom_filters knows
BogusSuffix == LookupSep \o <<"b", "o", "g", "u", "s">>
BogusDefinition == NameLookup \o BogusSuffix

\* Names bound in the namespace of module handlers
ModuleNames ==
    {"re", "forms", "models", "connection", "settings", "handler", "resource",
     "DjangoAuthentication", "Resource", "MethodNotAllowed",
     "BaseHandlerMeta", "BaseHandler", "ModelHandler"}

\* Builtin exception names of the interpreter that the module uses
BuiltinNames == {"NotImplementedError", "IndexError"}

\* `raise X(...)` evaluates the name X first
RaiseNamed(name) ==
    IF name \in ModuleNames \cup BuiltinNames THEN name ELSE "NameError"

may_output_field(field) == field \notin UnderscoreNames

\* Variant: the request's selection is not set off against the declared fields.
get_requested_fields_unchecked(c, requested) ==
    IF c.fields # {}
    THEN IF requested # {} THEN requested ELSE c.fields
    ELSE {field \in requested : may_output_field(field)}

get_requested_fields(c, requested) ==
    IF c.fields # {}
    THEN IF requested # {} THEN requested \cap c.fields ELSE c.fields
    ELSE {field \in requested : may_output_field(field)}

BaseMayInputField(c, field) ==
    IF c.fields # {}
    THEN field \in (c.fields \ c.exclude_in)
    ELSE field \notin c.exclude_in

\* Variant: the primary key is accepted like any other column.
ModelMayInputField_AnyColumn(c, field) == field \in ModelFieldNames

ModelMayInputField(c, field) ==
    LET result == BaseMayInputField(c, field)   \* computed, never returned
    IN  IF field \in ModelFieldNames
        THEN field # PrimaryKey
        ELSE FALSE                              \* FieldDoesNotExist

may_input_field(c, field) ==
    IF c.kind = "model" THEN ModelMayInputField(c, field)
    ELSE BaseMayInputField(c, field)

Restrict(d, keep) == [f \in (DOMAIN d) \cap keep |-> d[f]]

\* Exceptions: a class name and the constructor's arguments
NoExc == [name |-> "", args |-> <<>>]
Exc(name) == [name |-> name, args |-> <<>>]

\* utils.MethodNotAllowed(*permitted_methods)
MethodNotAllowed(permitted_methods) ==
    [name |-> "MethodNotAllowed", args |-> permitted_methods]

\* Results of methods that may raise: exc = NoExc when they return.
Ok(v) == [exc |-> NoExc, val |-> v, stages |-> <<>>]
Raise(e) == [exc |-> e, val |-> None, stages |-> <<>>]

----------------------------------------------------------------------------
\* Data access: working_set, data_item, data_set, data

Matches(r, kwargs) == \A f \in DOMAIN kwargs : r[f] = kwargs[f]

working_set(c, r) ==
    IF c.kind = "model"
    THEN Ok(QuerySet(SortById({x \in store : Matches(x, r.kwargs)}), FALSE))
    ELSE Raise(Exc(RaiseNamed("NotImplementedError")))

\* Variant: the item is looked up by the constraints whatever their fields.
data_item_by_any_constraint(c, r) ==
    IF c.kind = "model" /\ DOMAIN r.kwargs # {}
    THEN LET found == working_set(c, r).val.items
         IN  IF found = <<>> THEN Raise(Exc("DoesNotExist"))
             ELSE IF Len(found) > 1 THEN Raise(Exc("MultipleObjectsReturned"))
             ELSE Ok(Instance(found[1]))
    ELSE Ok(None)

data_item(c, r) ==
    IF c.kind = "model" /\ (DOMAIN r.kwargs) \cap UniqueFields # {}
    THEN LET field == CHOOSE f \in (DOMAIN r.kwargs) \cap UniqueFields : TRUE
             found == SelectSeq(working_set(c, r).val.items,
                                LAMBDA x : x[field] = r.kwargs[field])
         IN  IF found = <<>> THEN Raise(Exc("DoesNotExist"))
             ELSE Ok(Instance(found[1]))
    ELSE Ok(None)

\* Q(f1__icontains=t1) | Q(f2__icontains=t1) | ... ; an empty Q() selects all
SearchQuery(x, fields, terms) ==
    \/ terms = <<>>
    \/ \E i \in 1..Len(terms), j \in 1..Len(fields) :
           IContains(x[fields[j]], terms[i])

\* lookup.split('__'): the components of a lookup string
RECURSIVE SplitSep(_, _)
SplitSep(text, cur) ==
    IF text = <<>> THEN <<cur>>
    ELSE IF Len(text) >= 2 /\ SubSeq(text, 1, 2) = LookupSep
         THEN <<cur>> \o SplitSep(SubSeq(text, 3, Len(text)), <<>>)
         ELSE SplitSep(Tail(text), Append(cur, Head(text)))

\* The lookup types of the ORM that the filters use
QueryTerms == {<<"e", "x", "a", "c", "t">>, <<"i", "n">>,
               <<"i", "e", "x", "a", "c", "t">>,
               <<"i", "c", "o", "n", "t", "a", "i", "n", "s">>}

\* QuerySet.filter(**{lookup: value}) resolves the lookup: a last component
\* that is no lookup type is taken for a field name (lookup type exact), and
\* a path that names no field of the model is a FieldError.
LookupType(lookup) ==
    LET parts == SplitSep(lookup, <<>>)
    IN  IF Len(parts) > 1 /\ parts[Len(parts)] \in QueryTerms
        THEN parts[Len(parts)] ELSE <<"e", "x", "a", "c", "t">>

LookupPath(lookup) ==
    LET parts == SplitSep(lookup, <<>>)
    IN  IF Len(parts) > 1 /\ parts[Len(parts)] \in QueryTerms
        THEN SubSeq(parts, 1, Len(parts) - 1) ELSE parts

\* A lookup string is an exact lookup given the list of values: the ORM
\* coerces the list to the column type, for a text column its unicode
\* rendering.
filter_data(data, definition, values) ==
    IF definition.t = "str"
    THEN IF LookupPath(definition.lookup) = <<NameLookup>>
            /\ LookupType(definition.lookup) = <<"e", "x", "a", "c", "t">>
         THEN Ok(QuerySet(SelectSeq(data.items,
                       LAMBDA x : x["name"] = SmartUnicode(values)),
                      data.limited))
         ELSE Raise(Exc("FieldError"))
    ELSE IF definition.t = "list"
    THEN Ok(QuerySet(SelectSeq(data.items,
                   LAMBDA x : SearchQuery(x, definition.fields,
                                          SplitWs(JoinSpace(values), <<>>))),
                  data.limited))
    ELSE Ok(data)

\* order_by on the integer columns; "-f" is descending.
OrderKey(x, key) == IF key.desc THEN 0 - x[key.field] ELSE x[key.field]

RECURSIVE Before(_, _, _)
Before(x, y, order) ==
    IF order = <<>> THEN FALSE
    ELSE \/ OrderKey(x, order[1]) < OrderKey(y, order[1])
         \/ /\ OrderKey(x, order[1]) = OrderKey(y, order[1])
            /\ Before(x, y, Tail(order))

RECURSIVE Insert(_, _, _)
Insert(sorted, x, order) ==
    IF sorted = <<>> THEN <<x>>
    ELSE IF Before(x, sorted[1], order) THEN <<x>> \o sorted
    ELSE <<sorted[1]>> \o Insert(Tail(sorted), x, order)

RECURSIVE Sort(_, _)
Sort(items, order) ==
    IF items = <<>> THEN <<>>
    ELSE Insert(Sort(SubSeq(items, 1, Len(items) - 1), order),
                items[Len(items)], order)

order_data(data, order) == QuerySet(Sort(data.items, order), data.limited)

FilterNames == {"q", "name", "list"}

\* Variant: a declared filter is applied also when it has no values.
RECURSIVE ApplyFilters_Unguarded(_, _, _)
ApplyFilters_Unguarded(data, r, names) ==
    IF names = {} THEN Ok(data)
    ELSE LET name == CHOOSE n \in names : TRUE
             next == filter_data(data, Filters[name], r.GET[name])
         IN  IF next.exc # NoExc THEN next
             ELSE ApplyFilters_Unguarded(next.val, r, names \ {name})

\* The loop over the declared filters; a filter that raises ends it.
RECURSIVE ApplyFilters(_, _, _)
ApplyFilters(data, r, names) ==
    IF names = {} THEN Ok(data)
    ELSE LET name == CHOOSE n \in names : TRUE
             values == r.GET[name]
             next == IF values # <<>>
                     THEN filter_data(data, Filters[name], values)
                     ELSE Ok(data)
         IN  IF next.exc # NoExc THEN next
             ELSE ApplyFilters(next.val, r, names \ {name})

\* Variant: `elif order`, the order is applied only when no filter was.
data_set_elif_order(c, r) ==
    LET ws == working_set(c, r)
    IN  IF ws.exc # NoExc THEN ws
        ELSE LET applied == ApplyFilters(ws.val, r, FilterNames)
                 filtered == applied.val
                 hasFilter == \E n \in FilterNames : r.GET[n] # <<>>
                 order == r.GET.order
                 ordered == IF order # <<>> /\ ~hasFilter
                            THEN order_data(filtered, order)
                            ELSE filtered
             IN  IF applied.exc # NoExc THEN applied ELSE
                 [exc |-> NoExc, val |-> ordered,
                  stages |-> (IF hasFilter THEN <<"filter">> ELSE <<>>)
                             \o (IF order # <<>> /\ ~hasFilter
                                 THEN <<"order">> ELSE <<>>)]

data_set(c, r) ==
    LET ws == working_set(c, r)
    IN  IF ws.exc # NoExc THEN ws
        ELSE LET applied == ApplyFilters(ws.val, r, FilterNames)
                 filtered == applied.val
                 order == r.GET.order
                 ordered == IF order # <<>> THEN order_data(filtered, order)
                            ELSE filtered
             IN  IF applied.exc # NoExc THEN applied ELSE
                 [exc |-> NoExc, val |-> ordered,
                  stages |-> (IF \E n \in FilterNames : r.GET[n] # <<>>
                              THEN <<"filter">> ELSE <<>>)
                             \o (IF order # <<>> THEN <<"order">> ELSE <<>>)]

\* Variant: the item is picked from the data set, filters and order applied.
Data_ItemOfDataSet(c, r) ==
    LET item == data_item(c, r)
        set == data_set(c, r)
    IN  IF item.exc # NoExc THEN item
        ELSE IF item.val = None THEN set
        ELSE IF set.exc # NoExc THEN set
        ELSE IF \E i \in 1..Len(set.val.items) : set.val.items[i] = item.val.r
        THEN [item EXCEPT !.stages = set.stages]
        ELSE Raise(Exc("DoesNotExist"))

Data(c, r) ==
    LET item == data_item(c, r)
    IN  IF item.exc # NoExc THEN item
        ELSE IF item.val = None THEN data_set(c, r)
        ELSE item

----------------------------------------------------------------------------
\* Slicing: response_slice_data and slice_data

\* int(slice_arg) on the components the requests use
IntTokens == {"0", "1", "2", "3", "-1"}
IntOf(tok) ==
    CASE tok = "0" -> 0 [] tok = "1" -> 1 [] tok = "2" -> 2 [] tok = "3" -> 3
      [] tok = "-1" -> 0 - 1

NoneArg == [k |-> "none"]
IntArg(n) == [k |-> "int", v |-> n]
StrArg(tok) == [k |-> "str", s |-> tok]

\* Variant: a component that is not a number counts as absent.
SliceArg_NonNumericAbsent(slice, i) ==
    IF i > Len(slice) THEN NoneArg
    ELSE IF slice[i] \in IntTokens THEN IntArg(IntOf(slice[i]))
    ELSE NoneArg

\* One turn of the loop over range(3): slice[i], int(...), or the fallback
SliceArg(slice, i) ==
    IF i > Len(slice) THEN NoneArg                      \* IndexError, int(None)
    ELSE IF slice[i] \in IntTokens THEN IntArg(IntOf(slice[i]))
    ELSE IF slice[i] = "" THEN NoneArg                  \* '' or None
    ELSE StrArg(slice[i])

Min(a, b) == IF a < b THEN a ELSE b

\* list[start:stop:step] with integer or None arguments, step # 0
RECURSIVE Pick(_, _, _, _)
Pick(items, i, stop, step) ==
    IF (step > 0 /\ i >= stop) \/ (step < 0 /\ i <= stop) THEN <<>>
    ELSE <<items[i + 1]>> \o Pick(items, i + step, stop, step)

Clamp(arg, n, lo, hi, dflt) ==
    IF arg.k = "none" THEN dflt
    ELSE LET v == IF arg.v < 0 THEN arg.v + n ELSE arg.v
         IN  IF v < lo THEN lo ELSE IF v > hi THEN hi ELSE v

ListSlice(items, start, stop, step) ==
    LET n == Len(items)
        st == IF step.k = "none" THEN 1 ELSE step.v
    IN  IF st > 0
        THEN Pick(items, Clamp(start, n, 0, n, 0), Clamp(stop, n, 0, n, n), st)
        ELSE Pick(items, Clamp(start, n, 0 - 1, n - 1, n - 1),
                  Clamp(stop, n, 0 - 1, n - 1, 0 - 1), st)

\* Variant: the stop position is included in the window.
QuerySetSlice_InclusiveStop(data, start, stop, step) ==
    LET n == Len(data.items)
        low == IF start.k = "none" THEN 0 ELSE Min(start.v, n)
        high == IF stop.k = "none" THEN n ELSE Min(stop.v + 1, n)
    IN  QuerySet(SubSeq(data.items, low + 1, high), TRUE)

\* QuerySet.__getitem__ on a QuerySet that has not been evaluated
QuerySetSlice(data, start, stop, step) ==
    LET n == Len(data.items)
        low == IF start.k = "none" THEN 0 ELSE Min(start.v, n)
        high == IF stop.k = "none" THEN n ELSE Min(stop.v, n)
        qs == QuerySet(SubSeq(data.items, low + 1, high),
                       \/ data.limited
                       \/ (start.k = "int" /\ start.v # 0)   \* low_mark
                       \/ stop.k # "none")                   \* high_mark
        stepped == ListSlice(qs.items, NoneArg, NoneArg, step)
    IN  IF step.k = "none" \/ step.v = 0 THEN qs
        ELSE IF stepped = <<>> THEN qs
        ELSE List(stepped)

\* try: data[start:stop:step]  except: data
slice_data(data, start, stop, step) ==
    IF data.t = "qs"
    THEN IF \/ (start.k = "int" /\ start.v < 0)         \* AssertionError
            \/ (stop.k = "int" /\ stop.v < 0)
            \/ "str" \in {start.k, stop.k, step.k}       \* ValueError, TypeError
         THEN data
         ELSE QuerySetSlice(data, start, stop, step)
    ELSE IF data.t = "list"
    THEN IF \/ "str" \in {start.k, stop.k, step.k}       \* TypeError
            \/ (step.k = "int" /\ step.v = 0)            \* ValueError
         THEN data
         ELSE List(ListSlice(data.items, start, stop, step))
    ELSE data                                            \* TypeError

HasLen(v) == v.t \in {"dict", "qs", "list"}
PyLen(v) == IF v.t = "dict" THEN Cardinality(DOMAIN v.d) ELSE Len(v.items)

\* BaseHandler.response_slice_data: [exc, env, sliced]
BaseResponseSliceData(response, r) ==
    LET slice == r.GET.slice
        data == response["data"]
    IN  IF slice = <<>> \/ slice = <<"">>
        THEN [exc |-> NoExc, env |-> response, sliced |-> FALSE]
        ELSE IF "total" \notin DOMAIN response /\ ~HasLen(data)
        THEN [exc |-> Exc("TypeError"), env |-> response, sliced |-> FALSE]
        ELSE LET withTotal == IF "total" \in DOMAIN response THEN response
                              ELSE response @@ ("total" :> PyLen(data))
                 result == slice_data(data, SliceArg(slice, 1),
                                      SliceArg(slice, 2), SliceArg(slice, 3))
             IN  [exc |-> NoExc,
                  env |-> [withTotal EXCEPT !["data"] = result],
                  sliced |-> TRUE]

WithoutKey(f, key) == [k \in (DOMAIN f) \ {key} |-> f[k]]

\* Variant: the total is counted on the data after the slice.
ModelResponseSliceData_CountingWindow(response, r) ==
    LET base == BaseResponseSliceData(response, r)
    IN  IF base.exc # NoExc THEN base
        ELSE IF base.sliced /\ HasLen(base.env["data"])
        THEN [base EXCEPT !.env = [k \in (DOMAIN base.env) \cup {"total"} |->
                                      IF k = "total" THEN PyLen(base.env["data"])
                                      ELSE base.env[k]]]
        ELSE base

\* ModelHandler.response_slice_data
ModelResponseSliceData(response, r) ==
    LET data == response["data"]
        counted == IF data.t = "qs" /\ r.GET.slice # <<>>
                   THEN [k \in (DOMAIN response) \cup {"total"} |->
                            IF k = "total" THEN Len(data.items) ELSE response[k]]
                   ELSE response
        base == BaseResponseSliceData(counted, r)
    IN  IF base.exc # NoExc THEN base
        ELSE IF ~base.sliced /\ "total" \in DOMAIN base.env
        THEN [base EXCEPT !.env = WithoutKey(base.env, "total")]
        ELSE base

response_slice_data(c, response, r) ==
    IF c.kind = "model" THEN ModelResponseSliceData(response, r)
    ELSE BaseResponseSliceData(response, r)

----------------------------------------------------------------------------
\* Validation

BaseValidate(c, r, b) ==
    IF ~Truthy(b)
    THEN IF r.method = "POST"
         THEN Raise(Exc(RaiseNamed("ValidationError")))
         ELSE Ok(b)
    ELSE Ok(Dict(Restrict(b.d, {f \in DOMAIN b.d : may_input_field(c, f)})))

SetAttrs(rcd, d) == [f \in DOMAIN rcd |-> IF f \in DOMAIN d THEN d[f] ELSE rcd[f]]

\* Variant: of a batch only the first record receives the input.
Update_FirstOnly(current, d) ==
    IF current.t = "inst" THEN Instance(SetAttrs(current.r, d))
    ELSE QuerySet([i \in 1..Len(current.items) |->
                      IF i = 1 THEN SetAttrs(current.items[i], d)
                      ELSE current.items[i]],
                  current.limited)

\* the nested update(current, data) of ModelHandler.validate
Update(current, d) ==
    IF current.t = "inst" THEN Instance(SetAttrs(current.r, d))
    ELSE QuerySet([i \in 1..Len(current.items) |-> SetAttrs(current.items[i], d)],
                  current.limited)

ModelValidate(c, r, b) ==
    LET base == BaseValidate(c, r, b)
    IN  IF base.exc # NoExc THEN base
        ELSE IF ~Truthy(base.val) THEN base
        ELSE IF r.method = "POST" THEN Ok(NewInstance(base.val.d))
        ELSE IF r.method = "PUT"
        THEN LET current == Data(c, r)
             IN  IF current.exc # NoExc THEN current
                 ELSE [current EXCEPT !.val = Update(current.val, base.val.d)]
        ELSE base

validate(c, r, b) ==
    IF c.kind = "model" THEN ModelValidate(c, r, b) ELSE BaseValidate(c, r, b)

----------------------------------------------------------------------------
\* The CRUD operations.  Each gives the set of its possible outcomes
\* [exc, val, store, stages]: instance.save() may fail in the database.

Outcome(e, v, st, sg) == [exc |-> e, val |-> v, store |-> st, stages |-> sg]

Defaults == [grp |-> 0, name |-> <<>>, secret |-> <<>>]

\* the AutoField's next value
NextId ==
    IF store = {} THEN 1
    ELSE 1 + (CHOOSE x \in store : \A y \in store : y.id <= x.id).id

\* instance.save(force_insert=True) on a new instance
Inserted(d) ==
    [f \in ModelFieldNames |->
        IF f = PrimaryKey THEN NextId
        ELSE IF f \in DOMAIN d THEN d[f] ELSE Defaults[f]]

\* instance.save(force_update=True)
Saved(st, r) == {x \in st : x.id # r.id} \cup {r}

RECURSIVE SavedAll(_, _)
SavedAll(st, items) ==
    IF items = <<>> THEN st ELSE SavedAll(Saved(st, items[1]), Tail(items))

BaseCreate(b) ==
    IF b.t = "absent" THEN {Outcome(Exc("AttributeError"), None, store, <<>>)}
    ELSE {Outcome(NoExc, b, store, <<>>)}

ModelCreate(b) ==
    IF b.t = "new"
    THEN {Outcome(NoExc, Instance(Inserted(b.d)), store \cup {Inserted(b.d)}, <<>>),
          Outcome(NoExc, None, store, <<>>)}
    ELSE {Outcome(NoExc, None, store, <<>>)}     \* the except clause

BaseUpdate(b) == BaseCreate(b)

\* Variant: a batch update answers every record, persisted or not.
ModelUpdate_AnsweringAll(b) ==
    IF b.t = "absent" THEN {Outcome(Exc("AttributeError"), None, store, <<>>)}
    ELSE IF b.t = "inst"
    THEN {Outcome(NoExc, b, Saved(store, b.r), <<>>),
          Outcome(NoExc, None, store, <<>>)}
    ELSE IF Truthy(b) /\ b.t \in {"qs", "list"}
    THEN {LET persisted == SelectSeq(b.items, LAMBDA x : x.id \notin failing)
          IN  Outcome(NoExc, List(b.items), SavedAll(store, persisted), <<>>) :
          failing \in SUBSET {b.items[i].id : i \in 1..Len(b.items)}}
    ELSE {Outcome(NoExc, b, store, <<>>)}

ModelUpdate(b) ==
    IF b.t = "absent" THEN {Outcome(Exc("AttributeError"), None, store, <<>>)}
    ELSE IF b.t = "inst"
    THEN {Outcome(NoExc, b, Saved(store, b.r), <<>>),
          Outcome(NoExc, None, store, <<>>)}
    ELSE IF Truthy(b) /\ b.t \in {"qs", "list"}
    THEN {LET persisted == SelectSeq(b.items, LAMBDA x : x.id \notin failing)
          IN  Outcome(NoExc, List(persisted), SavedAll(store, persisted), <<>>) :
          failing \in SUBSET {b.items[i].id : i \in 1..Len(b.items)}}
    ELSE {Outcome(NoExc, b, store, <<>>)}

\* Variant: the delete operation removes the records itself.
ReadDeletingAtOnce(c, r) ==
    LET d == Data(c, r)
        gone == CASE r.method # "DELETE" -> {}
                  [] d.val.t = "inst" -> {d.val.r}
                  [] d.val.t = "qs" -> Range(d.val.items)
                  [] OTHER -> {}
    IN  {Outcome(d.exc, d.val, store \ gone, d.stages)}

Read(c, r) ==
    LET d == Data(c, r) IN {Outcome(d.exc, d.val, store, d.stages)}

Operation(c, r, b) ==
    CASE r.method = "POST" -> IF c.kind = "model" THEN ModelCreate(b) ELSE BaseCreate(b)
      [] r.method = "PUT" -> IF c.kind = "model" THEN ModelUpdate(b) ELSE BaseUpdate(b)
      [] OTHER -> Read(c, r)         \* read and delete: self.data(...)

----------------------------------------------------------------------------
\* Response construction: the patched Emitter.construct and in_typemapper

\* The fields the emitter represents a model instance by: Emitter.fields
\* when set, else the fields of the Handler class in_typemapper returns.
in_typemapper(c) ==
    LET nested == c.fields \ exclude_nested
    IN  IF nested # {} THEN nested ELSE model_fields

EmitterFields(c, fields) == IF fields # {} THEN fields ELSE in_typemapper(c)

\* model_key, model_type, model_description and the model's own columns
FieldValue(r, f) ==
    CASE f = "model_key" -> r.id
      [] f = "model_type" -> <<"r", "e", "c">>
      [] f = "model_description" -> r.name
      [] OTHER -> r[f]

EmitModel(r, fields) ==
    [f \in fields \cap (ModelFieldNames \cup model_fields) |-> FieldValue(r, f)]

\* process_requested_fields on a mapping (a handler that is no ModelHandler)
ProcessRequestedFields(c, v, fields) ==
    IF v.t = "dict"
    THEN Dict(Restrict(v.d, {f \in DOMAIN v.d :
                 f \in fields \/ (fields = {} /\ may_output_field(f))}))
    ELSE v

\* native construct: what the emitter makes of the envelope's data
NativeConstruct(c, v, fields) ==
    CASE v.t = "inst" ->
            [t |-> "row", of |-> <<v.r>>, out |-> <<EmitModel(v.r, EmitterFields(c, fields))>>]
      [] v.t \in {"qs", "list"} ->
            [t |-> "rows", of |-> v.items,
             out |-> [i \in 1..Len(v.items) |->
                        EmitModel(v.items[i], EmitterFields(c, fields))]]
      [] v.t = "dict" -> [t |-> "map", of |-> <<>>, out |-> <<v.d>>]
      [] OTHER -> [t |-> "null", of |-> <<>>, out |-> <<>>]

NotConstructed == [t |-> "no", of |-> <<>>, out |-> <<>>]

\* ModelHandler.data_safe_for_delete: data.delete()
\* A QuerySet with limits refuses to delete; a list has no delete().
DataSafeForDelete(c, v) ==
    IF c.kind # "model" THEN [exc |-> NoExc, store |-> store]
    ELSE CASE v.t = "inst" ->
                [exc |-> NoExc, store |-> {x \in store : x.id # v.r.id}]
           [] v.t = "qs" ->
                IF v.limited THEN [exc |-> Exc("AssertionError"), store |-> store]
                ELSE [exc |-> NoExc,
                      store |-> {x \in store : \A i \in 1..Len(v.items) :
                                                  v.items[i].id # x.id}]
           [] OTHER -> [exc |-> Exc("AttributeError"), store |-> store]

----------------------------------------------------------------------------
\* Resource.error_handler: the response kind of an exception

\* Variant: an operation that is not implemented is not recognised.
ErrorKind_NotImplementedUnknown(e) ==
    CASE e.name = "ValidationError" -> "bad_request"
      [] e.name = "DoesNotExist" -> "gone"
      [] e.name = "MethodNotAllowed" -> "not_allowed"
      [] e.name = "Http404" -> "not_found"
      [] OTHER -> "unknown"

ErrorKind(e) ==
    CASE e.name = "ValidationError" -> "bad_request"
      [] e.name \in {"NotImplementedError", "DoesNotExist"} -> "gone"
      [] e.name = "MethodNotAllowed" -> "not_allowed"
      [] e.name = "Http404" -> "not_found"
      [] OTHER -> "unknown"

Response(kind, permitted) == [kind |-> kind, permitted |-> permitted]

----------------------------------------------------------------------------
\* custom_filters: the handlers of the custom lookup suffixes, applied to a
\* lazy QuerySet of contacts.  A contact is related to lists through
\* membership rows and holds a list of e-mail addresses in a text column.

\* Number of filter calls chained on one QuerySet
MaxCalls == 2

Contact(i) ==
    [id |-> i,
     lists |-> CASE i = 1 -> <<2, 3>> [] i = 2 -> <<2>> [] i = 3 -> <<>>
                 [] i = 4 -> <<2, 2>> [] i = 5 -> <<3>> [] OTHER -> <<3, 2>>,
     emails |-> CASE i = 1 -> <<<<"a">>, <<"b", "c">>>> [] i = 2 -> <<<<"A", "b">>>>
                  [] i = 3 -> <<>> [] i = 4 -> <<<<"B", "C">>>>
                  [] i = 5 -> <<<<"b">>>> [] OTHER -> <<<<"a">>>>,
     recipients |-> IF i % 2 = 1 THEN <<"a", "b">> ELSE <<"A">>]

Contacts == {Contact(i) : i \in 1..(MaxId + 2)}

\* A QuerySet that has not been evaluated: the clauses added so far
LazyQuerySet(clauses) == [t |-> "lazy", clauses |-> clauses]

Cond(lookup, value) == [lookup |-> lookup, value |-> value]
\* filter(Q(...) | Q(...) | ...): any of the conditions; Q() is no condition
Where(any) == [k |-> "where", any |-> any]
\* annotate(count=Count('id')).filter(count=n)
HavingCount(n) == [k |-> "having", n |-> n]
\* exclude(id__in=ids)
ExcludeIds(ids) == [k |-> "exclude", ids |-> ids]

Chain(data, clause) == LazyQuerySet(Append(data.clauses, clause))

\* The text column of a list of strings: ["a", "bc"]
RECURSIVE JsonItems(_)
JsonItems(items) ==
    IF items = <<>> THEN <<>>
    ELSE <<"\"">> \o items[1] \o <<"\"">>
         \o (IF Len(items) > 1 THEN <<",", " ">> ELSE <<>>)
         \o JsonItems(Tail(items))

JsonText(items) == <<"[">> \o JsonItems(items) \o <<"]">>

LowerStr(text) == [k \in 1..Len(text) |-> Lower(text[k])]

\* The id a request value names: the ORM's int(value) for the __in lookup
ListId(value) ==
    IF Len(value) = 1 /\ value[1] \in IntTokens THEN IntOf(value[1]) ELSE 0 - 1

RelationPath == SplitSep(MembershipsList, <<>>)

\* The lookups the ORM resolves on a contact
Resolvable(lookup) ==
    \/ LookupPath(lookup) = RelationPath
        /\ LookupType(lookup) \in {<<"i", "n">>, <<"e", "x", "a", "c", "t">>}
    \/ LookupPath(lookup) \in {<<Emails>>, <<Recipients>>}

\* The rows of the SQL join that one condition leaves of one contact
CondRows(c, cond) ==
    LET path == LookupPath(cond.lookup)
        type == LookupType(cond.lookup)
    IN  IF path = RelationPath /\ type = <<"i", "n">>
        THEN Cardinality({j \in 1..Len(c.lists) :
                 \E i \in 1..Len(cond.value) : c.lists[j] = ListId(cond.value[i])})
        ELSE IF path = RelationPath               \* exact None: IS NULL
        THEN (IF cond.value = None /\ c.lists = <<>> THEN 1 ELSE 0)
        ELSE IF path = <<Emails>> /\ type = <<"i", "c", "o", "n", "t", "a", "i", "n", "s">>
        THEN (IF IContains(JsonText(c.emails), cond.value) THEN 1 ELSE 0)
        ELSE IF path = <<Recipients>> /\ type = <<"i", "e", "x", "a", "c", "t">>
        THEN (IF LowerStr(c.recipients) = LowerStr(cond.value) THEN 1 ELSE 0)
        ELSE 0

ClauseRows(c, clause) ==
    IF clause.k = "where"
    THEN IF clause.any = <<>> THEN 1
         ELSE IF Len(clause.any) = 1 THEN CondRows(c, clause.any[1])
         ELSE IF \E i \in 1..Len(clause.any) : CondRows(c, clause.any[i]) > 0
              THEN 1 ELSE 0
    ELSE IF clause.k = "exclude"
    THEN (IF c.id \in clause.ids THEN 0 ELSE 1)
    ELSE 1

\* Variant: the rows of the filter calls add up instead of being joined.
RECURSIVE RowCount_Sum(_, _)
RowCount_Sum(c, clauses) ==
    IF clauses = <<>> THEN 0
    ELSE IF \E i \in 1..Len(clauses) : ClauseRows(c, clauses[i]) = 0 THEN 0
    ELSE (IF clauses[1].k = "where" THEN ClauseRows(c, clauses[1]) ELSE 0)
         + RowCount_Sum(c, Tail(clauses))

\* COUNT(id) of a contact: every filter call on the relation joins the
\* membership rows once more
RECURSIVE RowCount(_, _)
RowCount(c, clauses) ==
    IF clauses = <<>> THEN 1
    ELSE ClauseRows(c, clauses[1]) * RowCount(c, Tail(clauses))

\* The contacts a QuerySet holds once it is evaluated
Evaluate(data) ==
    {c \in Contacts :
        /\ RowCount(c, data.clauses) >= 1
        /\ \A i \in 1..Len(data.clauses) :
              data.clauses[i].k = "having"
                 => RowCount(c, data.clauses) = data.clauses[i].n}

WellFormed(data) ==
    \A i \in 1..Len(data.clauses) :
        data.clauses[i].k = "where"
           => \A j \in 1..Len(data.clauses[i].any) :
                 Resolvable(data.clauses[i].any[j].lookup)

\* definition[:-n]
DropLast(text, n) == SubSeq(text, 1, Len(text) - n)

NullMarkers == {<<>>, <<"n", "u", "l", "l">>}

\* Variant: only the first value is looked at for the null marker.
in_all_filter_first_value(data, definition, values) ==
    LET field_in == DropLast(definition, Len(<<"_", "a", "l", "l">>))
        field_exact == DropLast(definition, Len(InAllSuffix))
    IN  IF values # <<>> /\ values[1] \in NullMarkers
        THEN Chain(data, Where(<<Cond(field_exact, None)>>))
        ELSE Chain(Chain(data, Where(<<Cond(field_in, values)>>)),
                   HavingCount(Len(values)))

in_all_filter(data, definition, values) ==
    LET field_in == DropLast(definition, Len(<<"_", "a", "l", "l">>))
        field_exact == DropLast(definition, Len(InAllSuffix))
    IN  IF \E i \in 1..Len(values) : values[i] \in NullMarkers
        THEN Chain(data, Where(<<Cond(field_exact, None)>>))
        ELSE Chain(Chain(data, Where(<<Cond(field_in, values)>>)),
                   HavingCount(Len(values)))

isearch_filter(data, definition, values) ==
    LET field == DropLast(definition, Len(ISearchSuffix))
    IN  Chain(data, Where([i \in 1..Len(values) |->
                 Cond(field \o LookupSep \o <<"i", "e", "x", "a", "c", "t">>,
                      values[i])]))

\* The substring pre-filter of in_list_filter
InListPrefilter(data, definition, values) ==
    LET field == DropLast(definition, Len(InListSuffix))
    IN  Chain(data, Where([i \in 1..Len(values) |->
                 Cond(field \o LookupSep
                            \o <<"i", "c", "o", "n", "t", "a", "i", "n", "s">>,
                      values[i])]))

\* Variant: the stored elements are compared as they are, not in lower case.
InListExclude_CaseSensitive(data, values) ==
    {c.id : c \in {x \in Evaluate(data) :
        ~\E i \in 1..Len(x.emails), j \in 1..Len(values) :
             x.emails[i] = LowerStr(values[j])}}

\* The loop over the pre-filtered instances: the ids to exclude
InListExclude(data, values) ==
    {c.id : c \in {x \in Evaluate(data) :
        ~\E i \in 1..Len(x.emails), j \in 1..Len(values) :
             LowerStr(x.emails[i]) = LowerStr(values[j])}}

in_list_filter(data, definition, values) ==
    LET prefiltered == InListPrefilter(data, definition, values)
    IN  Chain(prefiltered, ExcludeIds(InListExclude(prefiltered, values)))

\* Maps custom lookups to their handler methods
filter_to_method ==
    (InAllSuffix :> "in_all_filter") @@ (ISearchSuffix :> "isearch_filter")
    @@ (InListSuffix :> "in_list_filter")

\* The values a request may name for each filter
InAllValues ==
    LET V == {<<"2">>, <<"3">>, <<>>, <<"n", "u", "l", "l">>}
    IN  {<<>>} \cup {<<v>> : v \in V} \cup {<<v, w>> : v \in V, w \in V}

ISearchValues == {<<>>, <<<<"a", "B">>>>, <<<<"a">>, <<"x">>>>}

InListValues ==
    {<<>>, <<<<"a">>>>, <<<<"B">>>>, <<<<"a", "B">>>>, <<<<"B", "c">>, <<"x">>>>,
     <<<<>>>>}

\* One call of a filter: the method, its arguments, the contacts of the
\* result and, for in_list_filter, the instances its loop visited
FilterCall(method, definition, values, before, result, visited) ==
    [method |-> method, definition |-> definition, values |-> values,
     before |-> before, result |-> result, visited |-> visited]

NoFilterRun == [data |-> LazyQuerySet(<<>>), calls |-> <<>>]

----------------------------------------------------------------------------
\* The handler classes and the requests the model handles

DeclaredOptions == SUBSET {"id", "name", "secret"}
ExcludeInOptions == {{}, {"name"}}

Configs ==
    [kind : {"base", "model"}, fields : DeclaredOptions, exclude_in : ExcludeInOptions]

BodyFieldNames == {"id", "name", "secret", "bogus"}

BodyValue(f) ==
    CASE f = "id" -> MaxId + 1
      [] f = "name" -> <<"z">>
      [] f = "secret" -> <<"t">>
      [] OTHER -> <<"q">>

BodyOptions ==
    {Absent, None} \cup {Dict([f \in fs |-> BodyValue(f)]) : fs \in SUBSET BodyFieldNames}

KwargsOptions ==
    {EmptyMap, [id |-> 1], [id |-> MaxId + 1], [grp |-> 1], [id |-> 2, grp |-> 1]}

FieldSelections == SUBSET {"name", "secret", "_x"}

SliceOptions ==
    {<<>>, <<"">>, <<"0", "1">>, <<"1", "">>, <<"", "">>, <<"0", "", "2">>,
     <<"1", "2">>, <<"2", "1">>, <<"-1", "2">>, <<"x", "1">>}

OrderOptions == {<<>>, <<[field |-> "id", desc |-> TRUE]>>}

Query(field, q, name, order, slice) ==
    [field |-> field, q |-> q, name |-> name, list |-> <<>>,
     order |-> order, slice |-> slice]

Request(method, kwargs, GET, b) ==
    [method |-> method, kwargs |-> kwargs, GET |-> GET, body |-> b]

\* reads and deletes with every combination of filter, order and slice
QueryRequests ==
    {Request(m, kw, Query({}, q, n, o, sl), Absent) :
        m \in {"GET", "DELETE"}, kw \in KwargsOptions,
        q \in {<<>>, <<<<"a">>>>, <<<<"a", " ", "B">>>>}, n \in {<<>>, <<<<"B">>>>},
        o \in OrderOptions, sl \in SliceOptions}

\* reads with every request-level fields selection
FieldRequests ==
    {Request("GET", kw, Query(fs, <<>>, <<>>, <<>>, <<>>), Absent) :
        kw \in {EmptyMap, [id |-> 1]}, fs \in FieldSelections}

\* every verb with every body
BodyRequests ==
    {Request(m, kw, Query({}, q, <<>>, <<>>, sl), b) :
        m \in {"GET", "POST", "PUT", "DELETE"}, kw \in KwargsOptions,
        q \in {<<>>, <<<<"a">>>>}, sl \in {<<>>, <<"0", "1">>}, b \in BodyOptions}

\* reads and deletes through the filter with a custom lookup suffix
ListValues == {<<<<"2">>>>, <<<<"2">>, <<"3">>>>}

CustomFilterRequests ==
    {Request(m, kw, [Query({}, <<>>, n, o, sl) EXCEPT !.list = l], Absent) :
        m \in {"GET", "DELETE"}, kw \in {EmptyMap, [id |-> 1]},
        n \in {<<>>, <<<<"B">>>>}, o \in OrderOptions,
        sl \in {<<>>, <<"0", "1">>}, l \in ListValues}

\* reads and deletes with several values for the field filter
NameValues == {<<<<"B">>, <<"B">>>>, <<<<"B">>, <<"a", "b">>>>}

SeveralValuesRequests ==
    {Request(m, kw, Query({}, <<>>, n, o, <<>>), Absent) :
        m \in {"GET", "DELETE"}, kw \in {EmptyMap, [id |-> 2]},
        n \in NameValues, o \in OrderOptions}

\* reads and deletes constrained by a field that is not unique, to a group
\* of one record
GroupRequests ==
    {Request(m, [grp |-> 0], Query({}, <<>>, <<>>, o, <<>>), Absent) :
        m \in {"GET", "DELETE"}, o \in OrderOptions}

Requests ==
    QueryRequests \cup FieldRequests \cup BodyRequests \cup CustomFilterRequests
    \cup SeveralValuesRequests \cup GroupRequests

NoRequest == Request("", EmptyMap, Query({}, <<>>, <<>>, <<>>, <<>>), Absent)

----------------------------------------------------------------------------
\* Handler classes, as the metaclass constructs them from a class body

\* resource.Resource.callmap: the operation of each verb
callmap ==
    ("GET" :> "read") @@ ("POST" :> "create") @@ ("PUT" :> "update")
    @@ ("DELETE" :> "delete")

Operations == {callmap[m] : m \in DOMAIN callmap}

\* What a class body may say of an operation: nothing, True, False, or a
\* method definition
AttrValues == {"absent", "True", "False", "def"}

\* The loop over the operations: setdefault(operation, False), and an
\* attribute that is True is deleted from the class dictionary.
ClassDict(attrs) ==
    [op \in Operations |->
        CASE attrs[op] = "absent" -> "False"
          [] attrs[op] = "True" -> "absent"
          [] OTHER -> attrs[op]]

\* getattr(cls, name): the class dictionary, then the bases in MRO order
GetAttr(dict, inherited, name) ==
    IF dict[name] # "absent" THEN dict[name] ELSE inherited[name]

Callable(value) == value = "def"

\* cls.allowed_methods, the verbs whose operation is callable
AllowedMethods(resolved) ==
    {m \in DOMAIN callmap : Callable(resolved[callmap[m]])}

\* BaseHandlerMeta.__new__(meta, name, bases, attrs): the class it returns.
\* filters is a plain class attribute, inherited when the body has none.
BaseHandlerMeta_new(attrs, filters, base) ==
    LET dict == ClassDict(attrs)
        resolved == [op \in Operations |-> GetAttr(dict, base.ops, op)]
    IN  [depth |-> base.depth + 1,
         attrs |-> attrs,
         base |-> base.ops,
         ops |-> resolved,
         allowed_methods |-> AllowedMethods(resolved),
         filters |-> IF filters = Absent THEN base.filters ELSE filters]

\* class BaseHandler: its body defines the four operations as methods and
\* filters = False
BaseHandler ==
    [depth |-> 0,
     attrs |-> [op \in Operations |-> "def"],
     base |-> [op \in Operations |-> "def"],
     ops |-> [op \in Operations |-> "def"],
     allowed_methods |-> DOMAIN callmap,
     filters |-> NoFilters]

----------------------------------------------------------------------------
\* The state machine of one request

Init ==
    /\ cfg \in Configs
    /\ store = InitialStore
    /\ pc = "idle"
    /\ req = NoRequest
    /\ body = Absent
    /\ env = EmptyMap
    /\ exc = NoExc
    /\ resp = Response("none", <<>>)
    /\ selection = {}
    /\ constructed = NotConstructed
    /\ stages = <<>>
    /\ filterRun = NoFilterRun
    /\ handlerClass = BaseHandler

\* Resource.__call__: a request arrives
Receive ==
    /\ pc = "idle"
    /\ \E r \in Requests :
        /\ req' = r
        /\ body' = r.body
    /\ pc' = "routing"
    /\ UNCHANGED <<handlerClass, filterRun, cfg, store, env, exc, resp, selection, constructed, stages>>

\* Variant: a create is not checked against an existing item.
RouteWithoutItemCheck ==
    /\ pc = "routing"
    /\ pc' = "validating"
    /\ UNCHANGED <<handlerClass, filterRun, cfg, store, req, body, env, exc, resp, selection, constructed, stages>>

\* Variant: a create addressed to an item that does not exist goes ahead.
RouteCreatingMissingItem ==
    /\ pc = "routing"
    /\ LET item == IF req.method = "POST" THEN data_item(cfg, req) ELSE Ok(None)
       IN  IF item.exc = NoExc /\ item.val # None
           THEN exc' = MethodNotAllowed(<<"GET", "PUT", "DELETE">>) /\ pc' = "raised"
           ELSE exc' = exc /\ pc' = "validating"
    /\ UNCHANGED <<handlerClass, filterRun, cfg, store, req, body, env, resp, selection, constructed, stages>>

\* BaseHandler.request, its first statement: no create on an existing item
Route ==
    /\ pc = "routing"
    /\ LET item == IF req.method = "POST" THEN data_item(cfg, req) ELSE Ok(None)
       IN  IF item.exc # NoExc
           THEN exc' = item.exc /\ pc' = "raised"
           ELSE IF item.val # None
           THEN exc' = MethodNotAllowed(<<"GET", "PUT", "DELETE">>) /\ pc' = "raised"
           ELSE exc' = exc /\ pc' = "validating"
    /\ UNCHANGED <<handlerClass, filterRun, cfg, store, req, body, env, resp, selection, constructed, stages>>

\* Variant: the operation runs although validation raised.
ValidateThenOperate ==
    /\ pc = "validating"
    /\ IF body.t = "absent"
       THEN pc' = "executing" /\ UNCHANGED <<body, exc, stages>>
       ELSE LET v == validate(cfg, req, body)
            IN  IF v.exc # NoExc
                THEN exc' = v.exc /\ pc' = "executing" /\ UNCHANGED <<body, stages>>
                ELSE /\ body' = v.val
                     /\ stages' = stages \o <<"validate">> \o v.stages
                     /\ pc' = "executing"
                     /\ exc' = exc
    /\ UNCHANGED <<handlerClass, filterRun, cfg, store, req, env, resp, selection, constructed>>

\* BaseHandler.request: validate when the request has data
Validate ==
    /\ pc = "validating"
    /\ IF body.t = "absent"
       THEN pc' = "executing" /\ UNCHANGED <<body, exc, stages>>
       ELSE LET v == validate(cfg, req, body)
            IN  IF v.exc # NoExc
                THEN exc' = v.exc /\ pc' = "raised" /\ UNCHANGED <<body, stages>>
                ELSE /\ body' = v.val
                     /\ stages' = stages \o <<"validate">> \o v.stages
                     /\ pc' = "executing"
                     /\ exc' = exc
    /\ UNCHANGED <<handlerClass, filterRun, cfg, store, req, env, resp, selection, constructed>>

\* BaseHandler.request: the operation of the verb, wrapped in an envelope
Execute ==
    /\ pc = "executing"
    /\ \E o \in Operation(cfg, req, body) :
        IF o.exc # NoExc
        THEN exc' = o.exc /\ pc' = "raised" /\ UNCHANGED <<store, body, env, stages>>
        ELSE /\ store' = o.store
             /\ body' = IF req.method \in {"POST", "PUT"} THEN o.val ELSE body
             /\ env' = ("data" :> o.val)
             /\ stages' = stages \o <<"operation">> \o o.stages
             /\ pc' = "slicing"
             /\ exc' = exc
    /\ UNCHANGED <<handlerClass, filterRun, cfg, req, resp, selection, constructed>>

\* BaseHandler.request: slicing comes last
Slice ==
    /\ pc = "slicing"
    /\ LET s == response_slice_data(cfg, env, req)
       IN  IF s.exc # NoExc
           THEN exc' = s.exc /\ pc' = "raised" /\ UNCHANGED <<env, stages>>
           ELSE /\ env' = s.env
                /\ stages' = IF s.sliced THEN Append(stages, "slice") ELSE stages
                /\ pc' = "emitting"
                /\ exc' = exc
    /\ UNCHANGED <<handlerClass, filterRun, cfg, store, req, body, resp, selection, constructed>>

\* Resource.error_handler.  An unknown failure is left to the parent class,
\* whose payload is a mapping without a data key.
ErrorHandler ==
    /\ pc = "raised"
    /\ resp' = Response(ErrorKind(exc),
                        IF exc.name = "MethodNotAllowed" THEN exc.args ELSE <<>>)
    /\ IF ErrorKind(exc) = "unknown"
       THEN env' = ("type" :> None) /\ pc' = "emitting"
       ELSE env' = env /\ pc' = "done"
    /\ UNCHANGED <<handlerClass, filterRun, cfg, store, req, body, exc, selection, constructed, stages>>

\* patches.construct, up to and including the native construct
Construct ==
    /\ pc = "emitting"
    /\ IF "data" \notin DOMAIN env
       THEN /\ constructed' = [t |-> "error", of |-> <<>>, out |-> <<>>]
            /\ pc' = "done"
            /\ env' = env
            /\ selection' = {}
       ELSE LET fields == get_requested_fields(cfg, req.GET.field)
                selected == IF cfg.kind = "model" THEN env["data"]
                            ELSE ProcessRequestedFields(cfg, env["data"], fields)
            IN  /\ env' = [env EXCEPT !["data"] = selected]
                /\ selection' = fields
                /\ constructed' = NativeConstruct(cfg, selected, fields)
                /\ pc' = "constructed"
    /\ stages' = Append(stages, "construct")
    /\ UNCHANGED <<handlerClass, filterRun, cfg, store, req, body, exc, resp>>

\* BaseHandler.response_constructed: the deferred delete
ResponseConstructed ==
    /\ pc = "constructed"
    /\ LET d == IF req.method = "DELETE" THEN DataSafeForDelete(cfg, env["data"])
                ELSE [exc |-> NoExc, store |-> store]
       IN  /\ store' = d.store
           /\ exc' = d.exc
           /\ resp' = IF d.exc # NoExc THEN Response("server_error", <<>>)
                      ELSE Response("ok", <<>>)
           /\ stages' = IF req.method = "DELETE" THEN Append(stages, "delete")
                        ELSE stages
    /\ pc' = "done"
    /\ UNCHANGED <<handlerClass, filterRun, cfg, req, body, env, selection, constructed>>

Next ==
    \/ Receive
    \/ Route
    \/ Validate
    \/ Execute
    \/ Slice
    \/ ErrorHandler
    \/ Construct
    \/ ResponseConstructed

Spec == Init /\ [][Next]_vars

----------------------------------------------------------------------------
\* The slicing stage on envelopes in which a total has been preempted

SlicingRequests ==
    {Request("GET", kw, Query({}, <<>>, <<>>, <<>>, sl), Absent) :
        kw \in {EmptyMap, [id |-> 1]}, sl \in SliceOptions}

SlicingData ==
    {QuerySet(SortById(InitialStore), FALSE), List(SortById(InitialStore)),
     Instance(Rec(1)), Dict([name |-> <<"z">>]), None}

SlicingEnvelopes ==
    {("data" :> d) : d \in SlicingData}
    \cup {("data" :> d) @@ ("total" :> Cardinality(InitialStore)) : d \in SlicingData}

InitSlicing ==
    /\ cfg \in Configs
    /\ store = InitialStore
    /\ pc = "slicing"
    /\ req \in SlicingRequests
    /\ body = Absent
    /\ env \in SlicingEnvelopes
    /\ exc = NoExc
    /\ resp = Response("none", <<>>)
    /\ selection = {}
    /\ constructed = NotConstructed
    /\ stages = <<"operation">>
    /\ filterRun = NoFilterRun
    /\ handlerClass = BaseHandler

SpecSlicing == InitSlicing /\ [][Slice]_vars

----------------------------------------------------------------------------
\* The error handler on the exceptions a handler, or a subclass of it, raises

RaisedExceptions ==
    {Exc(n) : n \in {"ValidationError", "NotImplementedError", "DoesNotExist",
                     "Http404", "NameError", "TypeError", "AttributeError",
                     "AssertionError", "FieldError"}}
    \cup {MethodNotAllowed(<<"GET", "PUT", "DELETE">>), MethodNotAllowed(<<"GET">>)}

InitErrors ==
    /\ cfg \in Configs
    /\ store = InitialStore
    /\ pc = "raised"
    /\ req \in {Request(m, EmptyMap, Query({}, <<>>, <<>>, <<>>, <<>>), Absent) :
                   m \in {"GET", "POST", "PUT", "DELETE"}}
    /\ body = Absent
    /\ env = EmptyMap
    /\ exc \in RaisedExceptions
    /\ resp = Response("none", <<>>)
    /\ selection = {}
    /\ constructed = NotConstructed
    /\ stages = <<>>
    /\ filterRun = NoFilterRun
    /\ handlerClass = BaseHandler

NextErrors == ErrorHandler \/ Construct

SpecErrors == InitErrors /\ [][NextErrors]_vars

----------------------------------------------------------------------------
\* The custom filters called on a QuerySet of contacts, one after another

\* A call whose lookups the ORM resolves returns the new QuerySet (any other
\* raises FieldError and returns nothing).
ApplyFilter(method, definition, values, result, visited) ==
    /\ Len(filterRun.calls) < MaxCalls
    /\ WellFormed(result)
    /\ filterRun' =
          [data |-> result,
           calls |-> Append(filterRun.calls,
                       FilterCall(method, definition, values,
                                  Evaluate(filterRun.data), Evaluate(result),
                                  visited))]
    /\ UNCHANGED <<cfg, store, pc, req, body, env, exc, resp, selection,
                   constructed, stages, handlerClass>>

InAllFilter ==
    \E values \in InAllValues :
        ApplyFilter("in_all_filter", InAllDefinition, values,
                    in_all_filter(filterRun.data, InAllDefinition, values), {})

ISearchFilter ==
    \E values \in ISearchValues :
        ApplyFilter("isearch_filter", ISearchDefinition, values,
                    isearch_filter(filterRun.data, ISearchDefinition, values), {})

InListFilter ==
    \E values \in InListValues :
        ApplyFilter("in_list_filter", InListDefinition, values,
                    in_list_filter(filterRun.data, InListDefinition, values),
                    Evaluate(InListPrefilter(filterRun.data, InListDefinition,
                                             values)))

InitFilters ==
    /\ cfg = [kind |-> "model", fields |-> {}, exclude_in |-> {}]
    /\ store = InitialStore
    /\ pc = "idle"
    /\ req = NoRequest
    /\ body = Absent
    /\ env = EmptyMap
    /\ exc = NoExc
    /\ resp = Response("none", <<>>)
    /\ selection = {}
    /\ constructed = NotConstructed
    /\ stages = <<>>
    /\ filterRun = NoFilterRun
    /\ handlerClass = BaseHandler

NextFilters == InAllFilter \/ ISearchFilter \/ InListFilter

SpecFilters == InitFilters /\ [][NextFilters]_vars

----------------------------------------------------------------------------
\* The definition of handler classes, and a first request to one

\* The filters attribute of a class body
FiltersOptions ==
    {Absent, NoFilters,
     [t |-> "str", lookup |-> NameLookup],
     [t |-> "str", lookup |-> InAllDefinition],
     [t |-> "str", lookup |-> BogusDefinition]}

\* Depth of the inheritance chains below BaseHandler
MaxDepth == 2

\* A class statement with the latest class as its base
DefineClass ==
    /\ pc = "defining"
    /\ handlerClass.depth < MaxDepth
    /\ \E attrs \in [Operations -> AttrValues], filters \in FiltersOptions :
          handlerClass' = BaseHandlerMeta_new(attrs, filters, handlerClass)
    /\ UNCHANGED <<cfg, store, pc, req, body, env, exc, resp, selection,
                   constructed, stages, filterRun>>

\* A request names a value for the declared filter of the class:
\* data_set hands the definition to filter_data
FilterRequest ==
    /\ pc = "defining"
    /\ handlerClass.filters # NoFilters
    /\ exc' = filter_data(QuerySet(SortById(store), FALSE),
                          handlerClass.filters, <<<<"B">>>>).exc
    /\ pc' = "filtered"
    /\ UNCHANGED <<cfg, store, req, body, env, resp, selection,
                   constructed, stages, filterRun, handlerClass>>

InitClasses ==
    /\ cfg \in {c \in Configs : c.kind = "model" /\ c.fields = {} /\ c.exclude_in = {}}
    /\ store = InitialStore
    /\ pc = "defining"
    /\ req = NoRequest
    /\ body = Absent
    /\ env = EmptyMap
    /\ exc = NoExc
    /\ resp = Response("none", <<>>)
    /\ selection = {}
    /\ constructed = NotConstructed
    /\ stages = <<>>
    /\ filterRun = NoFilterRun
    /\ handlerClass = BaseHandler

NextClasses == DefineClass \/ FilterRequest

SpecClasses == InitClasses /\ [][NextClasses]_vars

----------------------------------------------------------------------------
\* Shared vocabulary of the properties

Plural == (DOMAIN req.kwargs) \cap UniqueFields = {}
Singular == ~Plural

HasSliceParam == req.GET.slice \notin {<<>>, <<"">>}
HasFilterParam == \E n \in FilterNames : req.GET[n] # <<>>
HasOrderParam == req.GET.order # <<>>

\* Positions of a stage in the log of the request
Positions(stage) == {i \in 1..Len(stages) : stages[i] = stage}

PipelineStages == {"validate", "operation", "filter", "order", "slice"}

\* C1: on a read of a plural data set the stages run in the order filter,
\* order, slice, whatever parameters are present and whatever the handler
\* class declares: the envelope's data is the working set filtered, then
\* ordered, then sliced, and for every verb nothing of the request runs
\* after the slice.
C1_StageOrder ==
    /\ \A i \in Positions("filter"), j \in Positions("order") : i < j
    /\ \A i \in Positions("order"), j \in Positions("slice") : i < j
    /\ \A i \in Positions("filter"), j \in Positions("slice") : i < j
    /\ \A j \in Positions("slice") :
          \A i \in 1..Len(stages) : stages[i] \in PipelineStages => i <= j
    /\ (/\ cfg.kind = "model" /\ req.method = "GET" /\ Plural
        /\ pc = "emitting" /\ "data" \in DOMAIN env)
       => LET filtered == ApplyFilters(working_set(cfg, req).val, req, FilterNames).val
              ordered == IF HasOrderParam THEN order_data(filtered, req.GET.order)
                         ELSE filtered
              sliced == IF HasSliceParam
                        THEN slice_data(ordered, SliceArg(req.GET.slice, 1),
                                        SliceArg(req.GET.slice, 2),
                                        SliceArg(req.GET.slice, 3))
                        ELSE ordered
          IN  env["data"] = sliced

\* C1 witness: a plural read on which all three stages ran and each changed
\* the data: the filter drops a record, the order reverses the rest and the
\* window shows the first of them.
C1_Witness ==
    /\ cfg.kind = "model" /\ req.method = "GET" /\ Plural /\ pc = "emitting"
    /\ HasFilterParam /\ HasOrderParam /\ HasSliceParam
    /\ stages = <<"operation", "filter", "order", "slice">>
    /\ req.GET.slice = <<"0", "1">>
    /\ req.kwargs = EmptyMap
    /\ Len(env["data"].items) = 1
    /\ env["total"] > 1
    /\ env["total"] < Cardinality(store)
    /\ env["data"].items[1].id > 1

\* The records a value holds
RecordsOf(v) ==
    CASE v.t = "inst" -> {v.r}
      [] v.t \in {"qs", "list"} -> Range(v.items)
      [] OTHER -> {}

\* C2: on a DELETE, records leave the store only in the step that follows
\* the construction of the response, every record removed is one the
\* constructed response holds, and nothing is removed once the request has
\* ended in an error response or when the envelope has no data key.
C2_DeleteAfterConstruct ==
    [][(req.method = "DELETE" /\ store' # store)
        => /\ pc = "constructed" /\ pc' = "done"
           /\ constructed.t \in {"row", "rows"}
           /\ stages[Len(stages)] = "construct"
           /\ "data" \in DOMAIN env
           /\ resp.kind = "none" /\ exc = NoExc
           /\ store' \subseteq store
           /\ (store \ store') \subseteq Range(constructed.of)
           /\ (store \ store') = RecordsOf(env["data"])]_vars

\* C2 witness: a DELETE of a data set has removed two of the records.
C2_Witness ==
    /\ req.method = "DELETE" /\ pc = "done" /\ resp.kind = "ok"
    /\ Cardinality(InitialStore \ store) = 2
    /\ (InitialStore \ store) = Range(constructed.of)

\* C3 (as claimed): a DELETE that carries a slice parameter removes the
\* whole data set the delete operation returned, whatever the window.
C3_DeleteIgnoresSlice ==
    [][(/\ cfg.kind = "model" /\ req.method = "DELETE" /\ HasSliceParam
        /\ pc = "constructed")
        => store' = store \ RecordsOf(Data(cfg, req).val)]_vars

\* C4 (as claimed): a record-backed handler never shows a model field that
\* its declared fields do not list, and with no declared fields it shows
\* the generic model_fields only.
C4_NoUndeclaredField ==
    (cfg.kind = "model" /\ constructed.t \in {"row", "rows"})
    => \A i \in 1..Len(constructed.out) :
          /\ (DOMAIN constructed.out[i]) \cap ModelFieldNames \subseteq cfg.fields
          /\ cfg.fields = {} => DOMAIN constructed.out[i] \subseteq model_fields

\* C5: with declared fields D non-empty, the fields selection of a request
\* is a subset of D, and is D when the request selects nothing.
C5_SelectionWithinDeclared ==
    (pc \in {"constructed", "done"} /\ constructed.t \in {"row", "rows", "map", "null"}
     /\ cfg.fields # {})
    => /\ selection \subseteq cfg.fields
       /\ req.GET.field = {} => selection = cfg.fields

\* C5 witness: a request selected a declared and an undeclared field and
\* the selection kept the declared one only.
C5_Witness ==
    /\ pc = "done" /\ resp.kind = "ok"
    /\ cfg.fields = {"id", "name"}
    /\ req.GET.field = {"name", "secret"}
    /\ selection = {"name"}

\* The input policy of the claim
PermittedInput(f) ==
    IF cfg.fields # {} THEN f \in cfg.fields \ cfg.exclude_in
    ELSE f \notin cfg.exclude_in

Validated == req.body.t # "absent" /\ pc = "executing"

\* C6 (as claimed): after validation, on any handler, the body holds only
\* fields the input policy permits.
C6_BodyWithinPolicy ==
    (Validated /\ body.t \in {"dict", "new"})
    => \A f \in DOMAIN body.d : PermittedInput(f)

\* C7: on a record-backed handler the body after validation never holds
\* the primary key or a name that is no model field, the records an update
\* addresses keep their keys, and such names raise nothing in validation.
C7_PrimaryKeyNotInput ==
    (cfg.kind = "model" /\ req.body.t = "dict")
    => /\ (Validated /\ body.t \in {"dict", "new"})
          => DOMAIN body.d \subseteq ModelFieldNames \ {PrimaryKey}
       /\ Validated
          => \A x \in RecordsOf(body) :
                /\ x.id # BodyValue(PrimaryKey)
                /\ \E y \in store : y.id = x.id
       /\ (pc = "raised" /\ "validate" \notin Range(stages) /\ Truthy(req.body))
          => exc.name \in {"MethodNotAllowed", "DoesNotExist"}

\* C7 witness: an update whose body names the primary key, a field and a
\* name that is no model field has been validated: the field is set.
C7_Witness ==
    /\ cfg.kind = "model" /\ req.method = "PUT" /\ Validated
    /\ req.body.t = "dict"
    /\ DOMAIN req.body.d = {"id", "name", "bogus"}
    /\ body.t = "inst"
    /\ body.r.id = 1
    /\ body.r.name = BodyValue("name")

\* C8 (as claimed): a create with an empty body ends in a validation error
\* response; an update with an empty body passes validation unchanged.
EmptyBody == req.body.t \in {"none", "dict"} /\ ~Truthy(req.body)

C8_EmptyBody ==
    /\ (req.method = "POST" /\ EmptyBody /\ pc = "done"
        /\ resp.kind \notin {"not_allowed", "gone"})
       => resp.kind = "bad_request"
    /\ (req.method = "PUT" /\ EmptyBody /\ pc \in {"executing", "raised"}
        /\ "operation" \notin Range(stages))
       => pc = "executing" /\ body = req.body

\* The path constraints name a unique field and an item matches them
AddressesItem ==
    /\ cfg.kind = "model" /\ Singular
    /\ \E x \in InitialStore : Matches(x, req.kwargs)

AddressesNothing ==
    /\ cfg.kind = "model" /\ Singular
    /\ \A x \in InitialStore : ~Matches(x, req.kwargs)

\* C9: a create on a path that addresses an existing item is rejected with
\* method-not-allowed (GET, PUT, DELETE) before validation and before any
\* operation: body and store are as they were.
C9_CreateOnItem ==
    (req.method = "POST" /\ AddressesItem /\ pc # "routing")
    => /\ pc \in {"raised", "done"}
       /\ stages = <<>>
       /\ body = req.body
       /\ store = InitialStore
       /\ exc = MethodNotAllowed(<<"GET", "PUT", "DELETE">>)
       /\ pc = "done" => resp = Response("not_allowed", <<"GET", "PUT", "DELETE">>)

\* C9 witness: such a create with a body has been answered.
C9_Witness ==
    /\ req.method = "POST" /\ AddressesItem /\ pc = "done"
    /\ req.body.t = "dict" /\ Truthy(req.body)
    /\ resp.kind = "not_allowed"

\* C10 (as claimed): a read, update or delete of an item that does not
\* exist is answered Gone, with or without a body.
C10_MissingItemGone ==
    (req.method \in {"GET", "PUT", "DELETE"} /\ AddressesNothing /\ pc = "done")
    => resp.kind = "gone"

----------------------------------------------------------------------------
\* Slicing

\* The slice parameter reads a:b with two integer components
TwoIntSlice ==
    /\ Len(req.GET.slice) = 2
    /\ req.GET.slice[1] \in IntTokens /\ req.GET.slice[2] \in IntTokens

SliceStart == IntOf(req.GET.slice[1])
SliceStop == IntOf(req.GET.slice[2])

\* The items at the positions a <= i < b of a sequence, counted from zero
WindowOf(items, a, b) ==
    SubSeq(items, (IF a < 0 THEN 0 ELSE a) + 1, Min(b, Len(items)))

IsDataSet(v) == v.t \in {"qs", "list"}

\* C11 as stated: for a slice parameter a:b with any integers a and b, the
\* slicing stage turns a data set of n items into the items at the positions
\* a up to but not including b and records n as the total.
C11_SliceWindow ==
    [][(/\ pc = "slicing" /\ TwoIntSlice /\ IsDataSet(env["data"]))
       => /\ pc' = "emitting"
          /\ env'["data"].items = WindowOf(env["data"].items, SliceStart, SliceStop)
          /\ env'["total"] = Len(env["data"].items)]_vars

\* C11 amended: for a slice parameter a:b with non-negative integers a and
\* b, the slicing stage turns a data set of n items into the items at the
\* positions a up to but not including b and records n as the total.
C11_SliceWindowNonNegative ==
    [][(/\ pc = "slicing" /\ TwoIntSlice /\ IsDataSet(env["data"])
        /\ SliceStart >= 0 /\ SliceStop >= 0)
       => /\ pc' = "emitting"
          /\ env'["data"].items = WindowOf(env["data"].items, SliceStart, SliceStop)
          /\ env'["total"] = Len(env["data"].items)]_vars

\* C11 witness: the window 1:2 of the three records is the second record,
\* and the total is three.
C11_Witness ==
    /\ pc = "emitting" /\ req.method = "GET"
    /\ req.GET.slice = <<"1", "2">>
    /\ "total" \in DOMAIN env /\ env["total"] = Cardinality(store)
    /\ env["data"].t = "qs"
    /\ Len(env["data"].items) = 1
    /\ env["data"].items[1].id = 2

\* The start component of the slice parameter is neither a number nor empty
NonNumericStart ==
    /\ Len(req.GET.slice) = 2
    /\ req.GET.slice[1] \notin IntTokens \cup {""}
    /\ req.GET.slice[2] \in IntTokens

C13_UnsliceableUntouched ==
    [][(/\ pc = "slicing" /\ HasSliceParam /\ ~IsDataSet(env["data"]))
       => /\ pc' = "emitting"
          /\ env'["data"] = env["data"]
          /\ "total" \notin DOMAIN env']_vars

----------------------------------------------------------------------------
\* Filters

\* The terms of the search parameter q
SearchTerms == SplitWs(JoinSpace(req.GET.q), <<>>)

\* Every term is contained, whatever the case, in one of the listed fields
EveryTermInSomeField(x, fields) ==
    \A i \in 1..Len(SearchTerms) :
        \E j \in 1..Len(fields) : IContains(x[fields[j]], SearchTerms[i])

\* C15: for a filter whose definition is a list of fields, the values are
\* split into terms and a record is kept if and only if every term is
\* contained, whatever the case, in at least one of the listed fields.
C15_SearchAllTerms ==
    (/\ cfg.kind = "model" /\ req.method = "GET" /\ pc = "slicing"
     /\ req.GET.q # <<>> /\ req.GET.name = <<>> /\ env["data"].t = "qs")
    => \A x \in store :
          Matches(x, req.kwargs) =>
             ((\E i \in 1..Len(env["data"].items) : env["data"].items[i] = x)
              <=> EveryTermInSomeField(x, Filters["q"].fields))

\* The request names values for the filter with the custom suffix
HasCustomFilterParam == req.GET.list # <<>>

\* text.endswith(suffix)
EndsWith(text, suffix) ==
    /\ Len(text) >= Len(suffix)
    /\ SubSeq(text, Len(text) - Len(suffix) + 1, Len(text)) = suffix

RegisteredSuffixes == DOMAIN filter_to_method

\* C16: a declared filter whose definition ends in a registered custom
\* suffix is applied by the handler registered for that suffix: a request
\* naming values for it on a data set runs the filter stage and is answered
\* with the data the handler returned, and the definition ends in exactly
\* one registered suffix.
C16_CustomFilterDelegated ==
    /\ Cardinality({sfx \in RegisteredSuffixes :
                       EndsWith(Filters["list"].lookup, sfx)}) = 1
    /\ (/\ cfg.kind = "model" /\ HasCustomFilterParam /\ Plural
         /\ pc \in {"slicing", "raised", "done"})
       => /\ exc = NoExc
          /\ Positions("filter") # {}

\* C14: without a slice parameter (absent or empty) the slicing stage
\* reports false and leaves the envelope as it was: the data is untouched,
\* no total is added and a total that was in the envelope before stays.
C14_NoSliceNoChange ==
    [][(pc = "slicing" /\ ~HasSliceParam)
       => (pc' = "emitting" /\ env' = env /\ stages' = stages)]_vars

----------------------------------------------------------------------------
\* The custom filters

Calls == filterRun.calls

IsNullMarked(values) == \E i \in 1..Len(values) : values[i] \in NullMarkers

\* The contact has a membership of the list that the value names
RelatedTo(c, value) == \E j \in 1..Len(c.lists) : c.lists[j] = ListId(value)

\* C17: for every non-empty list of non-null values, in_all_filter returns
\* exactly the records of the data set that are related to every value of
\* the list.
C17_InAllIntersection ==
    \A n \in 1..Len(Calls) :
        (/\ n = 1 /\ Calls[n].method = "in_all_filter"
         /\ Calls[n].values # <<>> /\ ~IsNullMarked(Calls[n].values))
        => Calls[n].result =
              {c \in Calls[n].before :
                  \A i \in 1..Len(Calls[n].values) : RelatedTo(c, Calls[n].values[i])}

\* C18: if any value passed to in_all_filter is the empty string or 'null',
\* wherever it stands in the list, the result is exactly the records of the
\* data set that have no related list, whatever the other values are.
C18_InAllNullMarker ==
    \A n \in 1..Len(Calls) :
        (Calls[n].method = "in_all_filter" /\ IsNullMarked(Calls[n].values))
        => Calls[n].result = {c \in Calls[n].before : c.lists = <<>>}

\* C18 witness: the null marker stands second, after the value of a list
\* that has members, and the result is the contact without memberships.
C18_Witness ==
    /\ Len(Calls) = 1
    /\ Calls[1].method = "in_all_filter"
    /\ Calls[1].values = <<<<"2">>, <<>>>>
    /\ Calls[1].result = {Contact(3)}
    /\ \E c \in Calls[1].before : RelatedTo(c, <<"2">>)

\* C19: the contains-all-values filter applied with [v] to a data set and
\* again with [v] to the result gives the result of applying it once.
C19_InAllIdempotent ==
    \A n \in 1..(Len(Calls) - 1) :
        (/\ Calls[n].method = "in_all_filter" /\ Calls[n + 1].method = "in_all_filter"
         /\ Len(Calls[n].values) = 1 /\ ~IsNullMarked(Calls[n].values)
         /\ Calls[n + 1].values = Calls[n].values)
        => Calls[n + 1].result = Calls[n].result

\* C19 witness: the filter ran twice with the same single value, and the
\* first run had kept some contacts and dropped others.
C19_Witness ==
    /\ Len(Calls) = 2
    /\ Calls[1].method = "in_all_filter" /\ Calls[2].method = "in_all_filter"
    /\ Calls[1].values = <<<<"2">>>> /\ Calls[2].values = <<<<"2">>>>
    /\ Calls[1].result # {} /\ Calls[1].result # Calls[1].before
    /\ Calls[2].before = Calls[1].result

\* A stored element equals one of the values, whatever the case
HasEqualElement(c, values) ==
    \E i \in 1..Len(c.emails), j \in 1..Len(values) :
        LowerStr(c.emails[i]) = LowerStr(values[j])

\* C20: in_list_filter keeps exactly the records whose stored list has an
\* element equal, whatever the case, to one of the values; the records its
\* exact check visits are the result of the substring pre-filter, and that
\* is a superset of the final result.
C20_InListTwoPhases ==
    \A n \in 1..Len(Calls) :
        Calls[n].method = "in_list_filter"
        => /\ Calls[n].result =
                 {c \in Calls[n].before : HasEqualElement(c, Calls[n].values)}
           /\ Calls[n].result \subseteq Calls[n].visited
           /\ Calls[n].visited \subseteq Calls[n].before

\* C20 witness: the pre-filter kept a contact whose address only contains
\* the value, the exact check dropped it and kept one with an equal
\* address in another case.
C20_Witness ==
    /\ Len(Calls) = 1
    /\ Calls[1].method = "in_list_filter"
    /\ Calls[1].values = <<<<"B">>>>
    /\ Contact(5) \in Calls[1].result
    /\ Contact(2) \in Calls[1].visited \ Calls[1].result
    /\ Calls[1].visited # Calls[1].before

\* C21: a filter whose definition is a single field name, requested with
\* several values, keeps the records that match every one of the values, as
\* if filter(field == value) were chained once per value.
C21_ExactFilterEveryValue ==
    (/\ cfg.kind = "model" /\ req.method = "GET" /\ Plural /\ pc = "slicing"
     /\ Len(req.GET.name) >= 2 /\ req.GET.q = <<>> /\ req.GET.list = <<>>)
    => \A x \in store :
          Matches(x, req.kwargs) =>
             ((\E i \in 1..Len(env["data"].items) : env["data"].items[i] = x)
              <=> \A j \in 1..Len(req.GET.name) : x.name = req.GET.name[j])

\* The declared filters the request names values for
SuppliedFilters == {n \in FilterNames : req.GET[n] # <<>>}

\* C22: a declared filter for which the request supplies no value does
\* nothing, whatever its kind: with no value for any filter the data set
\* after the filter stage is the working set, no filter ran and nothing was
\* raised; with values for some, the others leave no trace in the data.
C22_NoValueNoFilter ==
    (/\ cfg.kind = "model" /\ req.method \in {"GET", "DELETE"} /\ Plural
     /\ pc \in {"slicing", "raised"})
    => /\ SuppliedFilters = {}
          => /\ pc = "slicing"
             /\ Positions("filter") = {}
             /\ RecordsOf(env["data"]) = {x \in store : Matches(x, req.kwargs)}
             /\ ~HasOrderParam => env["data"] = working_set(cfg, req).val
       /\ SuppliedFilters = {"q"}
          => /\ pc = "slicing"
             /\ RecordsOf(env["data"]) =
                   {x \in store : /\ Matches(x, req.kwargs)
                                  /\ SearchQuery(x, Filters["q"].fields, SearchTerms)}

\* C22 witness: a plural read within a group, with three declared filters
\* and a value for none of them, has the records of the group as data.
C22_Witness ==
    /\ cfg.kind = "model" /\ req.method = "GET" /\ pc = "slicing"
    /\ req.kwargs = [grp |-> 1]
    /\ SuppliedFilters = {} /\ Cardinality(FilterNames) = 3
    /\ stages = <<"operation">>
    /\ Len(env["data"].items) = 2

----------------------------------------------------------------------------
\* Errors

\* The request ended in the error handler: the handler raised before any
\* response was constructed
Handled ==
    /\ pc = "done" /\ exc # NoExc
    /\ constructed.t \in {"no", "error"}

\* C23 as stated: every exception the handler raises is answered with one response kind: a
\* validation failure with bad request, an operation that is not
\* implemented or not permitted with method-not-allowed and the permitted
\* verbs, a missing item with Gone, a routing miss with not-found, anything
\* else with the unknown-failure response.
C23_Classification ==
    Handled =>
       /\ exc.name = "ValidationError" <=> resp.kind = "bad_request"
       /\ exc.name \in {"NotImplementedError", "MethodNotAllowed"}
             <=> resp.kind = "not_allowed"
       /\ exc.name = "MethodNotAllowed" => resp.permitted = exc.args
       /\ exc.name = "DoesNotExist" <=> resp.kind = "gone"
       /\ exc.name = "Http404" <=> resp.kind = "not_found"
       /\ resp.kind \in {"bad_request", "not_allowed", "gone", "not_found", "unknown"}

\* C23 amended: every exception the handler raises is answered with one response kind: a
\* validation failure with bad request, an operation that is not permitted
\* (MethodNotAllowed) with method-not-allowed and the permitted verbs, an
\* operation that is not implemented (NotImplementedError) and a missing
\* item alike with Gone, a routing miss with not-found, anything else with
\* the unknown-failure response.
C23_ClassificationGone ==
    Handled =>
       /\ exc.name = "ValidationError" <=> resp.kind = "bad_request"
       /\ exc.name = "MethodNotAllowed" <=> resp.kind = "not_allowed"
       /\ exc.name = "MethodNotAllowed" => resp.permitted = exc.args
       /\ exc.name \in {"NotImplementedError", "DoesNotExist"} <=> resp.kind = "gone"
       /\ exc.name = "Http404" <=> resp.kind = "not_found"
       /\ resp.kind \in {"bad_request", "not_allowed", "gone", "not_found", "unknown"}
       /\ resp.kind = "unknown" => "data" \notin DOMAIN env

\* C23 witness: an operation that is not implemented was answered with Gone.
C23_Witness ==
    /\ Handled
    /\ exc.name = "NotImplementedError"
    /\ resp.kind = "gone"

----------------------------------------------------------------------------
\* Persistence failures

\* A create or an update of a ModelHandler is about to run on validated data
Persisting ==
    /\ pc = "executing" /\ cfg.kind = "model"
    /\ req.method \in {"POST", "PUT"}
    /\ body.t \in {"new", "inst", "qs", "list"}

\* C24: a failure to persist in create or update never propagates: the
\* operation ends without an exception; a create answers null and leaves
\* the store alone, or answers the record it inserted; a single update
\* answers null and leaves the store alone, or answers the record it saved;
\* a batch update answers, in their original order, exactly the records it
\* saved.
C24_PersistFailureContained ==
    [][Persisting =>
        /\ pc' = "slicing" /\ exc' = NoExc
        /\ body.t = "new" =>
              \/ env'["data"] = None /\ store' = store
              \/ /\ env'["data"].t = "inst"
                 /\ env'["data"].r \notin store
                 /\ store' = store \cup {env'["data"].r}
                 /\ \A f \in DOMAIN body.d : env'["data"].r[f] = body.d[f]
        /\ body.t = "inst" =>
              \/ env'["data"] = None /\ store' = store
              \/ env'["data"] = body /\ store' = Saved(store, body.r)
        /\ (body.t \in {"qs", "list"} /\ body.items # <<>>) =>
              /\ env'["data"].t = "list"
              /\ env'["data"].items =
                    SelectSeq(body.items, LAMBDA x : x \in Range(env'["data"].items))
              /\ store' = SavedAll(store, env'["data"].items)
        /\ (body.t \in {"qs", "list"} /\ body.items = <<>>) =>
              env'["data"] = body /\ store' = store
      ]_vars

\* C24 witness: a batch update of the three records of which one failed to
\* persist has answered the two others, and the store holds the new name
\* for exactly those two.
C24_Witness ==
    /\ cfg.kind = "model" /\ req.method = "PUT" /\ pc = "slicing"
    /\ req.kwargs = EmptyMap /\ req.GET.q = <<>>
    /\ env["data"].t = "list"
    /\ Len(env["data"].items) = 2
    /\ env["data"].items[1].id = 1 /\ env["data"].items[2].id = 3
    /\ {x.id : x \in {y \in store : y.name = <<"z">>}} = {1, 3}
    /\ Cardinality(store) = 3

----------------------------------------------------------------------------
\* Validation failures

\* The first statement of BaseHandler.request raised
RouteRaised ==
    /\ req.method = "POST"
    /\ LET item == data_item(cfg, req) IN item.exc # NoExc \/ item.val # None

\* The request carried data and validate raised on it: an exception is
\* pending, it is not the routing's, and validate did not complete
ValidationFailed ==
    /\ exc # NoExc
    /\ ~RouteRaised
    /\ req.body.t # "absent"
    /\ \A i \in 1..Len(stages) : stages[i] # "validate"

\* C25: when validation fails the request goes straight to the error
\* handler: the operation of the verb never runs, no record is saved or
\* deleted and no envelope with a data key is produced, up to the end of the
\* request; and the validation step itself, failing or not, changes neither
\* the store nor the envelope.
C25_ValidationFailureShortCircuits ==
    /\ [][pc = "validating" =>
            /\ store' = store /\ env' = env
            /\ pc' \in {"raised", "executing"}
            /\ pc' = "raised" => stages' = stages]_vars
    /\ [](ValidationFailed =>
            /\ pc \in {"raised", "emitting", "done"}
            /\ \A i \in 1..Len(stages) : stages[i] \notin {"operation", "slice"}
            /\ store = InitialStore
            /\ "data" \notin DOMAIN env
            /\ constructed.t \in {"no", "error"})

\* C25 witness: an update addressed to a record that does not exist failed
\* in validation and was answered Gone with the store as it was.
C25_Witness ==
    /\ ValidationFailed
    /\ cfg.kind = "model" /\ req.method = "PUT" /\ pc = "done"
    /\ req.body.t = "dict" /\ "name" \in DOMAIN req.body.d
    /\ exc.name = "DoesNotExist" /\ resp.kind = "gone"
    /\ stages = <<>>
    /\ store = InitialStore

----------------------------------------------------------------------------
\* Validation of an update

\* The input validate keeps of the body: the fields that may be input
Cleaned == Restrict(body.d, {f \in DOMAIN body.d : may_input_field(cfg, f)})

\* The record carries the cleaned input and is otherwise the current record
Carries(new, current) ==
    /\ \A f \in DOMAIN Cleaned : new[f] = Cleaned[f]
    /\ \A f \in ModelFieldNames \ DOMAIN Cleaned : new[f] = current[f]

\* validate has replaced the body by the records the request addresses,
\* each carrying the cleaned input
BodyIsUpdatedRecords ==
    LET current == Data(cfg, req).val
    IN  /\ body'.t = current.t
        /\ current.t \in {"inst", "qs"}
        /\ current.t = "inst" => Carries(body'.r, current.r)
        /\ current.t = "qs" =>
              /\ Len(body'.items) = Len(current.items)
              /\ \A i \in 1..Len(current.items) :
                    Carries(body'.items[i], current.items[i])

\* validate completes on a PUT with a non-empty body for a ModelHandler
ValidatesUpdate ==
    /\ pc = "validating" /\ pc' = "executing"
    /\ cfg.kind = "model" /\ req.method = "PUT"
    /\ body.t = "dict" /\ DOMAIN body.d # {}

----------------------------------------------------------------------------
\* Handler class definitions

\* The definition ends in a suffix that is neither a lookup type of the ORM
\* nor a key of filter_to_method
HasUnknownSuffix(definition) ==
    /\ definition.t = "str"
    /\ LET parts == SplitSep(definition.lookup, <<>>)
       IN  /\ Len(parts) > 1
           /\ parts[Len(parts)] \notin QueryTerms
           /\ (LookupSep \o parts[Len(parts)]) \notin DOMAIN filter_to_method

\* C27: a filter definition with an unknown custom suffix is rejected when
\* the handler class is defined: no handler class comes to exist with such
\* a definition among its filters, so no request ever meets one.
C27_UnknownSuffixRejected ==
    ~HasUnknownSuffix(handlerClass.filters)

\* C28: an operation the class body defines as True is enabled (callable)
\* on the class, at any depth below BaseHandler and whatever the base class
\* said of it; an operation the body does not mention is disabled on the
\* class even if the base class enabled it; and allowed_methods holds a verb
\* exactly when its operation is callable.
C28_TrueEnablesOperation ==
    handlerClass.depth > 0 =>
       /\ \A op \in Operations :
             /\ handlerClass.attrs[op] = "True" => Callable(handlerClass.ops[op])
             /\ handlerClass.attrs[op] = "absent" => ~Callable(handlerClass.ops[op])
       /\ \A m \in DOMAIN callmap :
             m \in handlerClass.allowed_methods
                <=> Callable(handlerClass.ops[callmap[m]])

----------------------------------------------------------------------------
\* Singular and plural requests

\* A read or delete of a ModelHandler
ReadOrDelete == cfg.kind = "model" /\ req.method \in {"GET", "DELETE"}

\* The records the path constraints select
Constrained == {x \in InitialStore : Matches(x, req.kwargs)}

\* The operation has returned and its result is in the envelope
Operated == pc = "slicing" /\ "data" \in DOMAIN env

\* The request is past its operation
PastOperation == pc \in {"slicing", "raised", "emitting", "constructed", "done"}

\* C29: a request is handled as singular exactly when its path constraints
\* include a unique field of the model: the data is then the one record of
\* the working set with that value, and when there is none the request ends
\* with DoesNotExist; constraints on other fields give a data set, also
\* when they select exactly one record.
C29_SingularIffUniqueField ==
    ReadOrDelete =>
       /\ Operated =>
             /\ Singular <=> env["data"].t = "inst"
             /\ Plural <=> env["data"].t = "qs"
             /\ Singular =>
                   /\ env["data"].r \in Constrained
                   /\ \A f \in (DOMAIN req.kwargs) \cap UniqueFields :
                         env["data"].r[f] = req.kwargs[f]
             /\ (Plural /\ ~HasFilterParam) =>
                   RecordsOf(env["data"]) = Constrained
       /\ (Singular /\ Constrained = {} /\ PastOperation) =>
             /\ exc.name = "DoesNotExist"
             /\ "data" \notin DOMAIN env

\* C29 witness: a read constrained to a group that has one record has a
\* data set of that one record as data.
C29_Witness ==
    /\ ReadOrDelete /\ Operated /\ req.method = "GET"
    /\ DOMAIN req.kwargs = {"grp"}
    /\ Cardinality(Constrained) = 1
    /\ env["data"].t = "qs"
    /\ Len(env["data"].items) = 1
    /\ env["data"].items[1] \in Constrained

\* C30: filters and ordering are never applied to a singular request: when
\* the working set has the item, the operation returns it whatever filter
\* and order parameters the query string carries, no filter or order stage
\* runs and none of them raises.
C30_SingularUnfiltered ==
    (ReadOrDelete /\ Singular /\ Constrained # {}) =>
       /\ Operated =>
             /\ env["data"].t = "inst"
             /\ {env["data"].r} = Constrained
             /\ \E i \in 1..Len(working_set(cfg, req).val.items) :
                   working_set(cfg, req).val.items[i] = env["data"].r
       /\ \A i \in 1..Len(stages) : stages[i] \notin {"filter", "order"}
       /\ pc = "raised" => \E i \in 1..Len(stages) : stages[i] = "operation"
       /\ exc.name \notin {"FieldError", "DoesNotExist"}

\* C30 witness: a read of record 1 with a name filter that the record does
\* not pass and an order has the record as its data.
C30_Witness ==
    /\ ReadOrDelete /\ Operated /\ req.method = "GET"
    /\ req.kwargs = [id |-> 1]
    /\ req.GET.name = <<<<"B">>>> /\ HasOrderParam
    /\ env["data"] = Instance(Rec(1))
    /\ Rec(1).name # <<"B">>
    /\ stages = <<"operation">>

----------------------------------------------------------------------------
\* The envelope of a successful request

\* The request of a ModelHandler ended with its response constructed
Successful == cfg.kind = "model" /\ pc = "done" /\ resp.kind = "ok"

\* C31: after a successful request on a ModelHandler the envelope has a
\* data key, and a total key exactly when the request has a non-empty slice
\* parameter; the slicing stage sets total to the count of the data it was
\* given, before the slice, not to the length of the window.
C31_TotalIffSliced ==
    /\ [][(pc = "slicing" /\ cfg.kind = "model" /\ pc' = "emitting") =>
            /\ "data" \in DOMAIN env'
            /\ "total" \in DOMAIN env' <=> HasSliceParam
            /\ "total" \in DOMAIN env' => env'["total"] = PyLen(env["data"])]_vars
    /\ [](Successful =>
            /\ "data" \in DOMAIN env
            /\ "total" \in DOMAIN env <=> HasSliceParam)

\* C31 witness: a successful read of all three records with the window 0:1
\* answers one record and a total of three.
C31_Witness ==
    /\ Successful /\ req.method = "GET"
    /\ req.kwargs = EmptyMap /\ ~HasFilterParam
    /\ req.GET.slice = <<"0", "1">>
    /\ Len(env["data"].items) = 1
    /\ env["total"] = Cardinality(InitialStore)
    /\ env["total"] > Len(env["data"].items)

----------------------------------------------------------------------------
\* A create at a singular path

\* C32: a POST to a ModelHandler whose path constraints include a unique
\* field never creates a record: it raises MethodNotAllowed(GET, PUT,
\* DELETE) when the working set has the item and DoesNotExist when it has
\* not, answered method-not-allowed and Gone; neither validation nor the
\* create operation runs, and the body and the store stay as they were.
C32_NoCreateAtSingularPath ==
    (/\ cfg.kind = "model" /\ req.method = "POST" /\ Singular
     /\ pc \notin {"idle", "routing"})
    => /\ pc \in {"raised", "done"}
       /\ stages = <<>>
       /\ store = InitialStore
       /\ body = req.body
       /\ "data" \notin DOMAIN env
       /\ exc = IF Constrained # {}
                THEN MethodNotAllowed(<<"GET", "PUT", "DELETE">>)
                ELSE Exc("DoesNotExist")
       /\ pc = "done" =>
             resp = IF Constrained # {}
                    THEN Response("not_allowed", <<"GET", "PUT", "DELETE">>)
                    ELSE Response("gone", <<>>)

\* C32 witness: a POST with a name in its body, addressed to a record that
\* does not exist, was answered Gone and the store has no new record.
C32_Witness ==
    /\ cfg.kind = "model" /\ req.method = "POST" /\ pc = "done"
    /\ req.kwargs = [id |-> MaxId + 1]
    /\ req.body.t = "dict" /\ "name" \in DOMAIN req.body.d
    /\ resp.kind = "gone"
    /\ stages = <<>>
    /\ store = InitialStore

====
